---- MODULE Spec2Model ----
(***************************************************************************)
(* A model of the FastAPI weather service: main.py (the two routes),       *)
(* models.py (WeatherRequest / WeatherResponse) and services.py            *)
(* (WeatherService.get_weather).                                           *)
(*                                                                         *)
(* Strings are sequences of one-character strings, so that str.replace,    *)
(* str.isalpha, str.strip and the length constraints are computed the way  *)
(* Python computes them.  JSON objects are functions from keys to values;  *)
(* a missing key is a key outside the DOMAIN.  JSON scalars are tagged     *)
(* records [type, val].                                                    *)
(***************************************************************************)
EXTENDS Integers, Sequences, FiniteSets, TLC

VARIABLES
    pc,        \* pc[i]: where inbound call i is: "new", "received", "blocked", "done"
    route,     \* route[i]: "POST /weather", "GET /" or "none" before the call is sent
    body,      \* body[i]: the raw city string of the request body
    request,   \* request[i]: the validated WeatherRequest.city, or NoCity
    outbound,  \* outbound[i]: the provider requests issued for call i, in order
    reply,     \* reply[i]: what requests.get produced for call i, or NoReply
    response,  \* response[i]: the HTTP response sent to the client, or NoResponse
    loop       \* the call whose handler occupies the event-loop thread, 0 if none

vars == <<pc, route, body, request, outbound, reply, response, loop>>

(***************************************************************************)
(* Bounds of the model.                                                    *)
(***************************************************************************)
NumCalls == 2        \* inbound calls in one run
MaxShort == 3        \* raw strings up to this length are enumerated exhaustively

Calls == 1..NumCalls

(***************************************************************************)
(* Characters.  Two letters, the space, another whitespace character, a    *)
(* digit and a punctuation mark.                                           *)
(***************************************************************************)
Letters    == {"a", "b"}
Space      == " "
Tab        == "\t"
Whitespace == {Space, Tab}
Chars      == Letters \cup Whitespace \cup {"1", "-"}

(***************************************************************************)
(* models.py: WeatherRequest                                               *)
(***************************************************************************)
min_length == 2
max_length == 50

\* isalpha without the "at least one character" clause.
isalpha_vacuous(s) == \A k \in 1..Len(s) : s[k] \in Letters

\* str.isalpha(): all characters alphabetic AND at least one character.
isalpha(s) == Len(s) > 0 /\ \A k \in 1..Len(s) : s[k] \in Letters

\* str.replace(old, ''): every occurrence of the character old removed.
replace(s, old) == SelectSeq(s, LAMBDA c : c # old)

RECURSIVE lstrip(_)
lstrip(s) == IF s # <<>> /\ Head(s) \in Whitespace THEN lstrip(Tail(s)) ELSE s

RECURSIVE rstrip(_)
rstrip(s) ==
    IF s # <<>> /\ s[Len(s)] \in Whitespace THEN rstrip(SubSeq(s, 1, Len(s) - 1)) ELSE s

\* str.strip(): leading and trailing whitespace removed.
strip(s) == rstrip(lstrip(s))

Ok(v)   == [ok |-> TRUE,  value |-> v,    error |-> "none"]
Err(e)  == [ok |-> FALSE, value |-> <<>>, error |-> e]

\* Field(..., min_length=2, max_length=50): checked on the raw value, before
\* the validator runs.
FieldConstraints(value) ==
    IF Len(value) < min_length THEN Err("min_length")
    ELSE IF Len(value) > max_length THEN Err("max_length")
    ELSE Ok(value)

\* @validator('city') validate_city_name
validate_city_name(value) ==
    IF ~isalpha(replace(value, Space))
    THEN Err("City name must contain only alphabetic characters")
    ELSE Ok(strip(value))

\* WeatherRequest with the @validator left out.
WeatherRequest_unvalidated(raw) == FieldConstraints(raw)

\* WeatherRequest(city=raw): the field constraints, then the validator.
WeatherRequest(raw) ==
    LET c == FieldConstraints(raw)
    IN  IF c.ok THEN validate_city_name(c.value) ELSE c

(***************************************************************************)
(* JSON values.  Scalars are tagged; objects are functions from keys.      *)
(***************************************************************************)
Str(s)   == [type |-> "str",   val |-> s]
Float(s) == [type |-> "float", val |-> s]
Int_(s)  == [type |-> "int",   val |-> s]
Null     == [type |-> "null",  val |-> "null"]

EmptyObj == [k \in {} |-> Null]
Without(obj, key) == [k \in DOMAIN obj \ {key} |-> obj[k]]
With(obj, key, v) == [k \in DOMAIN obj \cup {key} |-> IF k = key THEN v ELSE obj[k]]

(***************************************************************************)
(* The provider's replies the model draws from.  PayloadA is the payload   *)
(* of the response schema's example; PayloadB differs from it in every     *)
(* field and carries two weather entries.  Damaged payloads are PayloadA   *)
(* with one key missing, with an empty weather list, or with one leaf      *)
(* null.  Leaf values otherwise have the JSON types the provider documents.*)
(***************************************************************************)
PayloadA ==
    [name    |-> Str("London"),
     main    |-> [temp |-> Float("15.5"), feels_like |-> Float("14.2"),
                  humidity |-> Int_("65")],
     weather |-> <<[description |-> Str("Partly cloudy")]>>,
     wind    |-> [speed |-> Float("3.6")]]

PayloadB ==
    [name    |-> Str("Paris"),
     main    |-> [temp |-> Float("21.0"), feels_like |-> Float("19.8"),
                  humidity |-> Int_("40")],
     weather |-> <<[description |-> Str("Clear sky")], [description |-> Str("Mist")]>>,
     wind    |-> [speed |-> Float("5.1")]]

\* The six expected leaves, as paths into the payload.
Leaves == { <<"name">>, <<"main", "temp">>, <<"main", "feels_like">>,
            <<"main", "humidity">>, <<"weather", "description">>,
            <<"wind", "speed">> }

\* payload with the leaf at path removed (drop = TRUE) or set to null.
Damage(p, path, drop) ==
    IF Len(path) = 1
    THEN IF drop THEN Without(p, path[1]) ELSE With(p, path[1], Null)
    ELSE IF path[1] = "weather"
    THEN With(p, "weather",
              <<IF drop THEN Without(p.weather[1], path[2])
                        ELSE With(p.weather[1], path[2], Null)>>)
    ELSE With(p, path[1],
              IF drop THEN Without(p[path[1]], path[2])
                      ELSE With(p[path[1]], path[2], Null))

CompletePayloads == {PayloadA, PayloadB}

IncompletePayloads ==
    { Damage(PayloadA, path, TRUE) : path \in Leaves }
      \cup { Without(PayloadA, k) : k \in {"main", "weather", "wind"} }
      \cup { With(PayloadA, "weather", <<>>) }

NullPayloads == { Damage(PayloadA, path, FALSE) : path \in Leaves }

Payloads == CompletePayloads \cup IncompletePayloads \cup NullPayloads

\* The provider's own error document.
ErrorPayload == [cod |-> Str("404"), message |-> Str("city not found")]

JsonBody(p)   == [json |-> TRUE,  data |-> p]
MalformedBody == [json |-> FALSE, data |-> EmptyObj]

HttpReply(status, b) ==
    [kind |-> "http", status |-> status, body |-> b, exc |-> "none"]
TransportFailure(exc) ==
    [kind |-> "exception", status |-> 0, body |-> MalformedBody, exc |-> exc]
NoReply == [kind |-> "none", status |-> 0, body |-> MalformedBody, exc |-> "none"]

\* Exceptions requests.get itself raises; all derive from RequestException.
TransportExceptions == {"ConnectionError", "TooManyRedirects"}

Replies ==
    { HttpReply(200, JsonBody(p)) : p \in Payloads }
      \cup { HttpReply(200, MalformedBody), HttpReply(503, MalformedBody) }
      \cup { HttpReply(300, JsonBody(PayloadA)) }
      \cup { HttpReply(404, JsonBody(ErrorPayload)), HttpReply(404, JsonBody(PayloadA)) }
      \cup { TransportFailure(e) : e \in TransportExceptions }

(***************************************************************************)
(* services.py: WeatherService.get_weather                                 *)
(***************************************************************************)
API_KEY == "OPENWEATHER_API_KEY"

\* The query parameters of the outbound call; requests.get is given no
\* timeout argument.
params(city) == [q |-> city, appid |-> API_KEY, units |-> "metric"]

\* What get_weather produces: a returned dict, the HTTPException of its except
\* clause, or an exception that leaves it uncaught.
Return(d)         == [kind |-> "return", data |-> d, status_code |-> 200, detail |-> <<>>]
HTTPException(code, detail) ==
    [kind |-> "HTTPException", data |-> EmptyObj, status_code |-> code, detail |-> detail]
Uncaught(exc)     == [kind |-> "uncaught", data |-> EmptyObj, status_code |-> 0, detail |-> <<exc>>]

\* raise_for_status raising for client errors only.
raise_for_status_4xx(status) == 400 <= status /\ status < 500

\* response.raise_for_status(): HTTPError for a 4xx or 5xx status, nothing otherwise.
raise_for_status(status) == 400 <= status /\ status < 600

\* str(e) of the HTTPError raise_for_status raises.
HTTPErrorText(status) ==
    <<ToString(status), IF status < 500 THEN " Client Error" ELSE " Server Error">>

\* except requests.RequestException as e: raise HTTPException(500, f"Error ...: {str(e)}")
ErrorFetching(cause) ==
    HTTPException(500, <<"Error fetching weather data: ">> \o cause)

\* The first lookup of the dict literal that fails, in evaluation order.
LookupError(data) ==
    IF "name" \notin DOMAIN data THEN "KeyError: 'name'"
    ELSE IF "main" \notin DOMAIN data THEN "KeyError: 'main'"
    ELSE IF "temp" \notin DOMAIN data.main THEN "KeyError: 'temp'"
    ELSE IF "feels_like" \notin DOMAIN data.main THEN "KeyError: 'feels_like'"
    ELSE IF "weather" \notin DOMAIN data THEN "KeyError: 'weather'"
    ELSE IF Len(data.weather) = 0 THEN "IndexError"
    ELSE IF "description" \notin DOMAIN data.weather[1] THEN "KeyError: 'description'"
    ELSE IF "humidity" \notin DOMAIN data.main THEN "KeyError: 'humidity'"
    ELSE IF "wind" \notin DOMAIN data THEN "KeyError: 'wind'"
    ELSE IF "speed" \notin DOMAIN data.wind THEN "KeyError: 'speed'"
    ELSE "none"

\* The dict literal with temp and feels_like exchanged.
WeatherData_swapped(data) ==
    [city        |-> data.name,
     temperature |-> data.main.feels_like,
     feels_like  |-> data.main.temp,
     description |-> data.weather[1].description,
     humidity    |-> data.main.humidity,
     wind_speed  |-> data.wind.speed]

\* The dict literal of the return statement.
WeatherData(data) ==
    [city        |-> data.name,
     temperature |-> data.main.temp,
     feels_like  |-> data.main.feels_like,
     description |-> data.weather[1].description,
     humidity    |-> data.main.humidity,
     wind_speed  |-> data.wind.speed]

\* data = response.json() and the return statement.  A body that is not JSON
\* raises JSONDecodeError, which is a RequestException in requests >= 2.27 and a
\* plain ValueError before: both builds are outcomes.
ParseAndMap(b) ==
    IF ~b.json
    THEN {ErrorFetching(<<"JSONDecodeError">>), Uncaught("JSONDecodeError")}
    ELSE IF LookupError(b.data) # "none" THEN {Uncaught(LookupError(b.data))}
    ELSE {Return(WeatherData(b.data))}

\* Everything get_weather does once requests.get has returned or raised.
ServiceOutcomes(rep) ==
    IF rep.kind = "exception" THEN {ErrorFetching(<<rep.exc>>)}
    ELSE IF raise_for_status(rep.status) THEN {ErrorFetching(HTTPErrorText(rep.status))}
    ELSE ParseAndMap(rep.body)

(***************************************************************************)
(* models.py: WeatherResponse, and the HTTP responses of main.py           *)
(***************************************************************************)
FieldTypes ==
    [city |-> "str", temperature |-> "float", feels_like |-> "float",
     description |-> "str", humidity |-> "int", wind_speed |-> "float"]

ResponseFields == DOMAIN FieldTypes

\* A value the field type accepts; an int is accepted where a float is declared.
TypeOk(v, t) == v.type = t \/ (t = "float" /\ v.type = "int")

\* WeatherResponse built without validation (construct()).
WeatherResponse_unchecked(d) == [ok |-> TRUE, value |-> d]

\* WeatherResponse(**weather_data): every field required and of its declared type.
WeatherResponse(d) ==
    IF \A f \in ResponseFields : f \in DOMAIN d /\ TypeOk(d[f], FieldTypes[f])
    THEN [ok |-> TRUE,  value |-> [f \in ResponseFields |-> d[f]]]
    ELSE [ok |-> FALSE, value |-> EmptyObj]

Response(status, detail, content) ==
    [status |-> status, detail |-> detail, content |-> content]
NoResponse == Response(0, <<>>, EmptyObj)

InternalServerError == Response(500, <<"Internal Server Error">>, EmptyObj)

\* What the framework sends for the outcome of the endpoint body
\*     weather_data = WeatherService.get_weather(request.city)
\*     return WeatherResponse(**weather_data)
EndpointResponse(out) ==
    IF out.kind = "HTTPException" THEN Response(out.status_code, out.detail, EmptyObj)
    ELSE IF out.kind = "uncaught" THEN InternalServerError
    ELSE LET r == WeatherResponse(out.data)
         IN  IF r.ok THEN Response(200, <<>>, r.value) ELSE InternalServerError

\* The 422 the framework sends when WeatherRequest cannot be built.
ValidationErrorResponse(e) == Response(422, <<e>>, EmptyObj)

WelcomeResponse ==
    Response(200, <<>>, [message |-> Str("Welcome to the Weather API")])

(***************************************************************************)
(* Inputs.                                                                 *)
(***************************************************************************)
\* Request bodies of the server runs: one that is trimmed, one whose trimmed
\* form is a single letter, one that fails validation.
RawCities == { <<" ", "a", "b">>, <<"a", " ">>, <<"a", "1">> }

Fill(n) == [k \in 1..n |-> "a"]

\* Request bodies of the validator runs: every string of at most MaxShort
\* characters, and strings of max_length - 1, max_length and max_length + 1
\* characters with every first and last character.
ValidatorInputs ==
    UNION { [1..n -> Chars] : n \in 0..MaxShort }
      \cup { <<h>> \o Fill(n - 2) \o <<t>> :
                h \in Chars, t \in Chars, n \in (max_length - 1)..(max_length + 1) }

NoCity == <<>>

(***************************************************************************)
(* The server.  Both routes are coroutines of one event loop: a handler    *)
(* runs only when the loop's thread is free, and get_weather calls the     *)
(* synchronous requests.get on that thread.                                *)
(***************************************************************************)
Init ==
    /\ pc       = [i \in Calls |-> "new"]
    /\ route    = [i \in Calls |-> "none"]
    /\ body     = [i \in Calls |-> <<>>]
    /\ request  = [i \in Calls |-> NoCity]
    /\ outbound = [i \in Calls |-> <<>>]
    /\ reply    = [i \in Calls |-> NoReply]
    /\ response = [i \in Calls |-> NoResponse]
    /\ loop     = 0

\* A client sends call i; it waits for the event loop.
Receive(i, r, raw) ==
    /\ pc[i] = "new"
    /\ pc'    = [pc EXCEPT ![i] = "received"]
    /\ route' = [route EXCEPT ![i] = r]
    /\ body'  = [body EXCEPT ![i] = raw]
    /\ UNCHANGED <<request, outbound, reply, response, loop>>

\* The event loop's thread is free to run a handler.
LoopFree == loop = 0

\* requests.get behind a cache keyed by city: no outbound request for a city an
\* earlier call has fetched.
requests_get_cached(i, city) ==
    /\ outbound' = IF \E j \in Calls \ {i} : pc[j] = "done" /\ request[j] = city
                   THEN outbound
                   ELSE [outbound EXCEPT ![i] = Append(@, params(city))]
    /\ loop'     = i

\* requests.get(cls.BASE_URL, params=params): one outbound request, made
\* synchronously on the calling thread, which it holds until it is answered.
requests_get(i, city) ==
    /\ outbound' = [outbound EXCEPT ![i] = Append(@, params(city))]
    /\ loop'     = i

\* POST /weather, up to the outbound call: the body is validated into
\* WeatherRequest (422 if that fails), then get_weather runs
\* WeatherService.get_weather(request.city) up to requests.get.
get_weather(i) ==
    /\ pc[i] = "received"
    /\ route[i] = "POST /weather"
    /\ LoopFree
    /\ LET v == WeatherRequest(body[i])
       IN  IF v.ok
           THEN /\ request' = [request EXCEPT ![i] = v.value]
                /\ requests_get(i, v.value)
                /\ pc' = [pc EXCEPT ![i] = "blocked"]
                /\ UNCHANGED response
           ELSE /\ response' = [response EXCEPT ![i] = ValidationErrorResponse(v.error)]
                /\ pc' = [pc EXCEPT ![i] = "done"]
                /\ UNCHANGED <<request, outbound, loop>>
    /\ UNCHANGED <<route, body, reply>>

\* requests.get returns or raises for call i, and the rest of the handler runs:
\* raise_for_status, json, the mapping, WeatherResponse, the reply to the client.
requests_get_returns(i, rep) ==
    /\ pc[i] = "blocked"
    /\ loop = i
    /\ \E out \in ServiceOutcomes(rep) :
          response' = [response EXCEPT ![i] = EndpointResponse(out)]
    /\ reply' = [reply EXCEPT ![i] = rep]
    /\ pc'    = [pc EXCEPT ![i] = "done"]
    /\ loop'  = 0
    /\ UNCHANGED <<route, body, request, outbound>>

\* GET /
root(i) ==
    /\ pc[i] = "received"
    /\ route[i] = "GET /"
    /\ LoopFree
    /\ response' = [response EXCEPT ![i] = WelcomeResponse]
    /\ pc' = [pc EXCEPT ![i] = "done"]
    /\ UNCHANGED <<route, body, request, outbound, reply, loop>>

Next ==
    \/ \E i \in Calls, raw \in RawCities : Receive(i, "POST /weather", raw)
    \/ \E i \in Calls : Receive(i, "GET /", <<>>)
    \/ \E i \in Calls : get_weather(i)
    \/ \E i \in Calls, rep \in Replies : requests_get_returns(i, rep)
    \/ \E i \in Calls : root(i)

Spec == Init /\ [][Next]_vars

\* The event loop runs every handler that is ready; nothing makes the provider
\* answer.
FairSpec ==
    Spec /\ \A i \in Calls : WF_vars(get_weather(i)) /\ WF_vars(root(i))

\* The validator alone: call 1 is sent with any of the validator inputs and
\* validated.
NextValidator ==
    \/ \E raw \in ValidatorInputs : Receive(1, "POST /weather", raw)
    \/ get_weather(1)

ValidatorSpec == Init /\ [][NextValidator]_vars

(***************************************************************************)
(* Vocabulary of the properties, stated without the model's operators.     *)
(***************************************************************************)
IsPost(i)    == route[i] = "POST /weather"
Finished(i)  == pc[i] = "done"

\* The reply came with a 2xx status and a JSON body.
Json2xx(i) ==
    reply[i].kind = "http" /\ reply[i].status \in 200..299 /\ reply[i].body.json

\* The leaf at path is present in the payload.
HasLeaf(d, path) ==
    /\ path[1] \in DOMAIN d
    /\ Len(path) = 2 =>
          IF path[1] = "weather"
          THEN Len(d.weather) > 0 /\ path[2] \in DOMAIN d.weather[1]
          ELSE path[2] \in DOMAIN d[path[1]]

LeafValue(d, path) ==
    IF Len(path) = 1 THEN d[path[1]]
    ELSE IF path[1] = "weather" THEN d.weather[1][path[2]]
    ELSE d[path[1]][path[2]]

\* The response field each leaf is mapped to, and its declared type.
FieldOf(path) ==
    CASE path = <<"name">>                   -> "city"
      [] path = <<"main", "temp">>           -> "temperature"
      [] path = <<"main", "feels_like">>     -> "feels_like"
      [] path = <<"weather", "description">> -> "description"
      [] path = <<"main", "humidity">>       -> "humidity"
      [] path = <<"wind", "speed">>          -> "wind_speed"

DeclaredType(f) ==
    CASE f \in {"city", "description"} -> {"str"}
      [] f = "humidity" -> {"int"}
      [] OTHER -> {"float"}

SixFields ==
    {"city", "temperature", "feels_like", "description", "humidity", "wind_speed"}

GatewayPrefix == "Error fetching weather data: "

\* The 500 of the gateway error: the fetch-failure message followed by a cause.
IsGatewayError(r) ==
    r.status = 500 /\ Len(r.detail) >= 2 /\ r.detail[1] = GatewayPrefix

IsTrimmed(s) == s = <<>> \/ (Head(s) \notin Whitespace /\ s[Len(s)] \notin Whitespace)

\* The input between its first and its last non-whitespace character.
Trimmed(s) ==
    LET keep == {k \in 1..Len(s) : s[k] \notin Whitespace}
    IN  IF keep = {} THEN <<>>
        ELSE SubSeq(s, CHOOSE a \in keep : \A k \in keep : a <= k,
                       CHOOSE b \in keep : \A k \in keep : k <= b)

\* A character other than a space that is not a letter.
HasNonAlpha(s) == \E k \in 1..Len(s) : s[k] # Space /\ s[k] \notin Letters
OnlySpaces(s)  == \A k \in 1..Len(s) : s[k] = Space
BadLength(s)   == Len(s) < 2 \/ Len(s) > 50

\* Call i was validated: it ended in 422, or its request holds the given value.
Rejected(i)    == Finished(i) /\ response[i].status = 422 /\ outbound[i] = <<>>
Accepted(i, v) == pc[i] \in {"blocked", "done"} /\ response[i].status # 422
                    /\ request[i] = v
Validated(i)   == IsPost(i) /\ pc[i] \in {"blocked", "done"}

(***************************************************************************)
(* C1: a 2xx JSON payload that lacks one of the six expected fields ends   *)
(* in the gateway error (500 with a message describing the cause), never   *)
(* in a 200.  The code lets the KeyError escape: the client gets the       *)
(* framework's bare 500.                                                   *)
(***************************************************************************)
C1_MissingFieldIsGatewayError ==
    \A i \in Calls :
        (Finished(i) /\ IsPost(i) /\ Json2xx(i)
           /\ \E path \in Leaves : ~HasLeaf(reply[i].body.data, path))
        => IsGatewayError(response[i])

(***************************************************************************)
(* C2: the city stored in the request and forwarded as q is trimmed and    *)
(* has between 2 and 50 characters.  The length is checked before the      *)
(* value is stripped, so "a " is stored and forwarded as "a".              *)
(***************************************************************************)
C2_ForwardedCityTrimmedInRange ==
    \A i \in Calls :
        (Validated(i) /\ response[i].status # 422) =>
            /\ IsTrimmed(request[i])
            /\ Len(request[i]) >= 2 /\ Len(request[i]) <= 50
            /\ \A k \in 1..Len(outbound[i]) : outbound[i][k].q = request[i]

(***************************************************************************)
(* C3: while one POST /weather call waits for the provider, every other    *)
(* received call can be served.  The handler is a coroutine that calls the *)
(* blocking requests.get on the event loop's thread.                       *)
(***************************************************************************)
C3_OthersProgressWhileWaiting ==
    \A i \in Calls : \A j \in Calls \ {i} :
        (pc[i] = "blocked" /\ pc[j] = "received")
        => ENABLED (get_weather(j) \/ root(j))

(***************************************************************************)
(* C4 as stated: a transport failure or any non-2xx status ends in 500     *)
(* with the fetch-failure message and the cause, after one outbound call.  *)
(* raise_for_status raises for 4xx and 5xx only: a 3xx reply is parsed     *)
(* like a 2xx one.                                                         *)
(***************************************************************************)
FailedFetch(i, statuses) ==
    \/ reply[i].kind = "exception"
    \/ reply[i].kind = "http" /\ reply[i].status \in statuses

\* The text of the cause the message must embed.
CauseOf(rep) == IF rep.kind = "exception" THEN rep.exc ELSE ToString(rep.status)

\* 500, the fetch-failure message with a cause, no content, one outbound call.
FetchFailureAnswer(i) ==
    /\ IsGatewayError(response[i])
    /\ response[i].content = EmptyObj
    /\ Len(outbound[i]) = 1

C5_Original_Reference ==
    \A i \in Calls :
        Validated(i) =>
            IF BadLength(body[i]) \/ HasNonAlpha(body[i])
            THEN Rejected(i)
            ELSE Accepted(i, Trimmed(body[i]))

(***************************************************************************)
(* C5, amended: validation fails iff the raw string has fewer than 2 or    *)
(* more than 50 characters, or consists of spaces only, or holds a         *)
(* character other than a space that is not alphabetic; otherwise the      *)
(* validated value is the input with leading and trailing whitespace       *)
(* removed and internal spaces preserved.                                  *)
(***************************************************************************)
C5_ValidationReference ==
    \A i \in Calls :
        Validated(i) =>
            IF BadLength(body[i]) \/ OnlySpaces(body[i]) \/ HasNonAlpha(body[i])
            THEN Rejected(i)
            ELSE Accepted(i, Trimmed(body[i]))

C5_Witness ==
    \E i \in Calls : body[i] = <<Space, Space>> /\ Rejected(i)

(***************************************************************************)
(* C6: a completed POST /weather call ends either in a 200 whose content   *)
(* has exactly the six fields, each of its declared type, or in a 422 or   *)
(* 500 with no content; never in a partly populated response.              *)
(***************************************************************************)
FullResponse(r) ==
    /\ r.status = 200
    /\ DOMAIN r.content = SixFields
    /\ \A f \in SixFields : r.content[f].type \in DeclaredType(f)

ErrorResponse(r) == r.status \in {422, 500} /\ r.content = EmptyObj

WellFormed(d) ==
    \A path \in Leaves :
        HasLeaf(d, path) /\ LeafValue(d, path).type \in DeclaredType(FieldOf(path))

IsMappingOf(r, d) ==
    /\ r.status = 200
    /\ DOMAIN r.content = SixFields
    /\ \A path \in Leaves : r.content[FieldOf(path)] = LeafValue(d, path)

C8_ValidatedCallCompletes ==
    \A i \in Calls : (pc[i] = "blocked") ~> (pc[i] = "done")

(***************************************************************************)
(* C9: an outbound request is issued for a call only after its city has    *)
(* passed validation; a call whose city fails validation is answered 422   *)
(* and issues no outbound request.                                         *)
(***************************************************************************)
ValidCity(s) == ~(BadLength(s) \/ OnlySpaces(s) \/ HasNonAlpha(s))

C9_ValidationBeforeOutbound ==
    \A i \in Calls :
        /\ outbound[i] # <<>> => (Validated(i) /\ ValidCity(body[i])
                                    /\ request[i] # NoCity)
        /\ (Validated(i) /\ ~ValidCity(body[i])) => Rejected(i)

C9_Witness ==
    \E i \in Calls : \E j \in Calls \ {i} :
        /\ IsPost(i) /\ Rejected(i)
        /\ IsPost(j) /\ outbound[j] # <<>>

(***************************************************************************)
(* C10: every call that passed validation has issued exactly one outbound  *)
(* request, whether or not its city was requested before and whether or    *)
(* not the request failed.                                                 *)
(***************************************************************************)
C10_ExactlyOneOutbound ==
    \A i \in Calls :
        /\ (Validated(i) /\ response[i].status # 422) => Len(outbound[i]) = 1
        /\ Len(outbound[i]) <= 1

C10_Witness ==
    \E i \in Calls : \E j \in Calls \ {i} :
        /\ Finished(i) /\ Finished(j)
        /\ request[i] # NoCity /\ request[i] = request[j]
        /\ response[i].status = 200 /\ response[j].status = 500
        /\ Len(outbound[i]) = 1 /\ Len(outbound[j]) = 1

====
